---- MODULE Spec2Model ----
(***************************************************************************)
(* State-machine model of clonellm: the session history store of           *)
(* memory.py (module dict _store, InMemoryHistory, get_by_session_id) and  *)
(* the CloneLLM orchestrator of core.py (construction, fit/update,         *)
(* completion routing, clear_memory).                                      *)
(*                                                                         *)
(* Python values are modelled as follows.                                  *)
(*   - a session id is a string; the unset id (None) is the string "None"; *)
(*     uuid.uuid4() hands out the tokens "u1", "u2", ... one after the     *)
(*     other, never the same one twice;                                    *)
(*   - _store is a function whose DOMAIN is the set of keys of the dict;   *)
(*   - an InMemoryHistory is a record [messages, memory]. Its constructor  *)
(*     raises for every argument (and get_by_session_id calls it without   *)
(*     the argument), so no statement of src/ ever binds a key of _store.  *)
(*     The methods of the class and the branches of their callers that use *)
(*     a history are modelled as the code has them; the specifications     *)
(*     that exercise them start with BindHistory, in which an importer of  *)
(*     memory.py assigns to _store a history object obtained without the   *)
(*     constructor;                                                        *)
(*   - a message is <<role, n>>, n being its position in its history;      *)
(*   - a raised exception is recorded in ret.out by its Python type;       *)
(*   - a coroutine (afit, aupdate, acompletion) runs up to its await in    *)
(*     one step and from the await to its end in another; other calls run  *)
(*     in between.                                                         *)
(***************************************************************************)
EXTENDS Integers, Sequences, FiniteSets, TLC

\* ------------------------------------------------------------- bounds
MaxIndex == 4        \* most chunks held by one retrieval index
MaxUuid == 3         \* most calls of uuid.uuid4() in one behaviour
MaxSent == 4         \* most messages one request appends between two clears

\* ------------------------------------------------------------- values
None == "None"
ExtIds == {"a", "b"}                 \* session ids chosen by a caller of memory.py
Token(n) == "u" \o ToString(n)       \* the n-th result of uuid.uuid4()
Memories == {-1, 0, 1, 2, 4}         \* retention bounds given to InMemoryHistory
MsgBatches == {<<"m1">>, <<"m2", "m3">>, <<"m1", "m2", "m3">>}
                                     \* batches handed to add_messages
Personas == {"p1", "p2"}             \* CloneLLM instances
Requests == {"r1", "r2"}             \* concurrent requests on the store
Tasks == {"t1", "t2"}                \* coroutines in flight on the event loop
Uuids == {Token(i) : i \in 1..MaxUuid}
SessionIds == ExtIds \cup Uuids
AllIds == SessionIds \cup {None}

VARIABLES
    store,       \* memory.py _store: session id -> InMemoryHistory
    getLog,      \* ghost: per session id, what a caller of memory.py did with
                 \*        that id since its last clear: "clear" for the clear,
                 \*        then the outcomes of the lookups (three entries kept)
    ret,         \* outcome of the last call that returned, raised or
                 \*        suspended: [op, who, sid, out, pos, hist, arg,
                 \*        backend, mem]
    cls,         \* class attributes of CloneLLM: [is_fitted, db_set, db]
    persona,     \* CloneLLM instances: instance attributes
    nextUuid,    \* number of uuid4 tokens handed out
    req,         \* requests running memory.py statement by statement
    task         \* coroutines: what each holds while suspended at its await

vars == <<store, getLog, ret, cls, persona, nextUuid, req, task>>

storeVars == <<store, getLog>>
personaVars == <<cls, persona, nextUuid>>

\* ------------------------------------------------------------- memory.py

Min(a, b) == IF a <= b THEN a ELSE b

\* mutant: the slice keeps the first n elements, lst[:n]
SliceFirst(lst, n) == SubSeq(lst, 1, Min(n, Len(lst)))

\* lst[-n:]: for n > 0 the last n elements (all of lst when it is shorter),
\* for n = 0 all of lst, for n < 0 lst without its first -n elements
SliceLast(lst, n) ==
    IF n > 0
    THEN LET k == Min(n, Len(lst)) IN SubSeq(lst, Len(lst) - k + 1, Len(lst))
    ELSE SubSeq(lst, 1 - n, Len(lst))

\* mutant: the list is sliced whatever the retention bound
truncates_always(m) == TRUE

\* add_messages, line 29: if self.memory > 0
truncates(m) == m > 0

\* for message in messages: self.messages.append(message)
RECURSIVE AppendEach(_, _)
AppendEach(lst, msgs) ==
    IF msgs = <<>> THEN lst ELSE AppendEach(Append(lst, Head(msgs)), Tail(msgs))

\* InMemoryHistory.add_messages on an object h
add_messages(h, msgs) ==
    LET all == AppendEach(h.messages, msgs)
    IN  [h EXCEPT !.messages =
                      IF truncates(h.memory) THEN SliceLast(all, h.memory) ELSE all]

\* mutant: clear keeps the newest message
history_clear_keeps_last(h) == [h EXCEPT !.messages = SliceLast(h.messages, 1)]

\* InMemoryHistory.clear on an object h
history_clear(h) == [h EXCEPT !.messages = <<>>]

\* InMemoryHistory(memory): __init__ does not run BaseModel.__init__ and
\* assigns self.memory, a name that is no field of the pydantic model, which
\* BaseModel.__setattr__ refuses with ValueError. No object is built, whatever
\* the argument.
NewHistory(m) == [built |-> FALSE, out |-> "ValueError"]

\* InMemoryHistory(): the required argument `memory` is missing
NewHistoryNoArg == [built |-> FALSE, out |-> "TypeError"]

\* get_by_session_id(session_id): the branch taken and what it yields. On an
\* absent id line 38 raises before _store is assigned.
get_outcome(st, sid) == IF sid \in DOMAIN st THEN "hist" ELSE NewHistoryNoArg.out

\* at most three entries are kept per id
Logged(log, out) == IF Len(log) < 3 THEN Append(log, out) ELSE log

\* mutant: the clear empties every history of the store
clear_session_history_all(st, sid) == [s \in DOMAIN st |-> history_clear(st[s])]

\* clear_session_history(session_id): empties the history of a known id in
\* place, does nothing for an unknown one.
clear_session_history(st, sid) ==
    IF sid \in DOMAIN st THEN [st EXCEPT ![sid] = history_clear(@)] ELSE st

\* op: the operation; who: the caller; sid: the session id handed to the store
\* (None when the store is not used); out: "ok", "hist", "pending" (the
\* coroutine is suspended at its await) or the exception type; pos: the
\* document position named by a ValueError, -1 otherwise; hist: the chat
\* history handed to the completion backend, <<>> when none was; arg: the
\* documents argument of update, <<>> otherwise; backend: whether the external
\* backend answered the call, TRUE when it was not reached; mem: the argument
\* of InMemoryHistory or the retention bound of a history bound to the store,
\* 0 otherwise; dropped: how many messages clear_memory found in the history
\* it cleared, 0 otherwise.
Ret(op, who, sid, out) ==
    [op |-> op, who |-> who, sid |-> sid, out |-> out, pos |-> -1, hist |-> <<>>,
     arg |-> <<>>, backend |-> TRUE, mem |-> 0, dropped |-> 0]

\* the outcome of a call whose backend answers (b) or raises (~b)
RetB(b, op, who, sid, out) == [Ret(op, who, sid, out) EXCEPT !.backend = b]

\* A caller runs _store[sid] = InMemoryHistory(m): the constructor raises and
\* the assignment does not happen.
InstallHistory(sid, m) ==
    /\ ret' = [Ret("install", "caller", sid, NewHistory(m).out) EXCEPT !.mem = m]
    /\ UNCHANGED <<store, getLog, personaVars, req, task>>

\* An importer of memory.py runs _store[sid] = h on an id that has no entry,
\* h being a history with no messages and retention bound m that it obtained
\* without the constructor (src/ has no statement that yields one).
BindHistory(sid, m) ==
    /\ sid \notin DOMAIN store
    /\ store' = [s \in DOMAIN store \cup {sid} |->
                    IF s = sid THEN [messages |-> <<>>, memory |-> m] ELSE store[s]]
    /\ ret' = [Ret("bind", "caller", sid, "ok") EXCEPT !.mem = m]
    /\ UNCHANGED <<getLog, personaVars, req, task>>

\* A caller looks an id up: get_by_session_id(sid).
Get(sid) ==
    /\ getLog' = [getLog EXCEPT ![sid] = Logged(@, get_outcome(store, sid))]
    /\ ret' = Ret("get", "caller", sid, get_outcome(store, sid))
    /\ UNCHANGED <<store, personaVars, req, task>>

\* A caller clears an id: clear_session_history(sid).
ClearSession(sid) ==
    /\ store' = clear_session_history(store, sid)
    /\ getLog' = [getLog EXCEPT ![sid] = <<"clear">>]
    /\ ret' = Ret("clear", "caller", sid, "ok")
    /\ UNCHANGED <<personaVars, req, task>>

\* ------------------------------------------------------------- memory.py,
\* statement by statement, as concurrent requests run it

\* pc: the statement the request is at ("new" before it starts, "idle" between
\* calls, "append" inside the loop of add_messages, "store" between the
\* slice and the assignment of line 30); sid: the session id it works on;
\* call: its last call; got: the outcome of that call; batch: the messages
\* add_messages has still to append; slice: the slice line 30 has evaluated
\* and not yet assigned. Ghost fields: sent, the messages the
\* request has appended since it last cleared; alone, the messages a history
\* of its own would hold had its calls run on it one after the other;
\* cleared, whether it has cleared a history that held messages, and bound,
\* the retention bound that history had.
NoRequest ==
    [pc |-> "new", sid |-> None, call |-> "none", got |-> "none", batch |-> <<>>,
     slice |-> <<>>, sent |-> <<>>, alone |-> <<>>, cleared |-> FALSE, bound |-> 0]

StepFrame == UNCHANGED <<getLog, ret, cls, persona, nextUuid, task>>

\* a request starts working on session id sid
Begin(r, sid) ==
    /\ req[r].pc = "new"
    /\ req' = [req EXCEPT ![r].pc = "idle", ![r].sid = sid]
    /\ UNCHANGED store
    /\ StepFrame

\* get_by_session_id, line 37: if session_id not in _store; on a present id
\* line 39 returns the entry
GetCheck(r) ==
    /\ req[r].pc = "idle"
    /\ req' = IF req[r].sid \notin DOMAIN store
              THEN [req EXCEPT ![r].pc = "get_create", ![r].call = "get",
                               ![r].got = "none"]
              ELSE [req EXCEPT ![r].call = "get", ![r].got = "hist"]
    /\ UNCHANGED store
    /\ StepFrame

\* get_by_session_id, line 38: _store[session_id] = InMemoryHistory() raises
\* TypeError and the call ends
GetCreate(r) ==
    /\ req[r].pc = "get_create"
    /\ req' = [req EXCEPT ![r].pc = "idle", ![r].got = NewHistoryNoArg.out]
    /\ UNCHANGED store
    /\ StepFrame

\* the request calls InMemoryHistory(m), lines 17-18
NewCall(r, m) ==
    /\ req[r].pc = "idle"
    /\ req' = [req EXCEPT ![r].call = "new", ![r].got = NewHistory(m).out]
    /\ UNCHANGED store
    /\ StepFrame

\* mutant: the message list is one list shared by every history
append_targets_shared(st, sid) == DOMAIN st

\* line 15, messages = Field(default_factory=list): every history has a list
\* of its own, so an append reaches the receiver's list only
append_targets(st, sid) == {sid}

\* the request calls add_messages(batch) on the history its lookup returned
AddCall(r, batch) ==
    /\ req[r].pc = "idle"
    /\ req[r].got = "hist"
    /\ req' = [req EXCEPT
               ![r].pc = "append", ![r].call = "add", ![r].got = "none",
               ![r].batch = batch,
               ![r].alone = add_messages([messages |-> req[r].alone,
                                          memory |-> store[req[r].sid].memory],
                                         batch).messages]
    /\ UNCHANGED store
    /\ StepFrame

\* add_messages, lines 27-28: one iteration, self.messages.append(message)
AppendStep(r) ==
    /\ req[r].pc = "append"
    /\ req[r].batch # <<>>
    /\ store' = [s \in DOMAIN store |->
                    IF s \in append_targets(store, req[r].sid)
                    THEN [store[s] EXCEPT !.messages = Append(@, Head(req[r].batch))]
                    ELSE store[s]]
    /\ req' = [req EXCEPT ![r].batch = Tail(@),
                          ![r].sent = Append(@, Head(req[r].batch))]
    /\ StepFrame

\* add_messages, line 29 and the right-hand side of line 30 when the loop has
\* ended: with self.memory > 0 the slice self.messages[-self.memory:] of the
\* list as it is now is evaluated, else the call returns
TruncateStep(r) ==
    /\ req[r].pc = "append"
    /\ req[r].batch = <<>>
    /\ LET h == store[req[r].sid]
       IN  req' = IF truncates(h.memory)
                  THEN [req EXCEPT ![r].pc = "store",
                                   ![r].slice = SliceLast(h.messages, h.memory)]
                  ELSE [req EXCEPT ![r].pc = "idle", ![r].got = "ok"]
    /\ UNCHANGED store
    /\ StepFrame

\* add_messages, line 30, the assignment: self.messages = <the slice>, made
\* through BaseModel.__setattr__ after other threads may have run; what they
\* appended since the slice was taken is not in it. The call returns.
StoreStep(r) ==
    /\ req[r].pc = "store"
    /\ store' = [store EXCEPT ![req[r].sid].messages = req[r].slice]
    /\ req' = [req EXCEPT ![r].pc = "idle", ![r].got = "ok", ![r].slice = <<>>]
    /\ StepFrame

\* clear_session_history(sid), one step
ClearStep(r) ==
    /\ req[r].pc = "idle"
    /\ store' = clear_session_history(store, req[r].sid)
    /\ req' = [req EXCEPT
               ![r].call = "clear", ![r].got = "ok", ![r].sent = <<>>,
               ![r].alone = <<>>,
               ![r].cleared = IF /\ req[r].sid \in DOMAIN store
                                 /\ store[req[r].sid].messages # <<>>
                              THEN TRUE ELSE @,
               ![r].bound = IF /\ req[r].sid \in DOMAIN store
                               /\ store[req[r].sid].messages # <<>>
                            THEN store[req[r].sid].memory ELSE @]
    /\ StepFrame

\* ------------------------------------------------------------- core.py

\* A corpus entry is a Document ("d1", "d2", "d0") or some other object ("x").
IsDocument(d) == d \in {"d0", "d1", "d2"}

\* self._splitter.split_documents reads page_content of every entry before it
\* splits any: an entry that is not a Document makes it raise AttributeError
split_raises(docs) == \E i \in 1..Len(docs) : ~IsDocument(docs[i])

\* self._splitter.split_documents on Documents: each document yields its
\* chunks in order; "d2" stands for a document longer than chunk_size, cut
\* into two chunks.
RECURSIVE split_documents(_)
split_documents(docs) ==
    IF docs = <<>> THEN <<>>
    ELSE LET d == Head(docs)
         IN  (IF d = "d2" THEN << <<d, 1>>, <<d, 2>> >> ELSE << <<d, 1>> >>)
             \o split_documents(Tail(docs))

\* the collection Chroma loads from persist_directory
PersistedIndex == << <<"d0", 1>> >>

\* attribute lookup: the instance attribute when set, else the class attribute
is_fitted(p) == persona[p].inst_fitted \/ cls.is_fitted
db_is_none(p) == ~persona[p].inst_db_set /\ ~cls.db_set
db_of(p) == IF persona[p].inst_db_set THEN persona[p].inst_db ELSE cls.db

\* _check_is_fitted passes (self._splitter is set by _internal_init, so the
\* from_update disjunct is never true of a constructed instance)
check_is_fitted(p) == is_fitted(p) /\ ~db_is_none(p)

\* _check_documents: 0-based position of the first entry of `documents or
\* self.documents` that is not a Document, -1 when there is none
checked_batch(p, batch) == IF batch = <<>> THEN persona[p].documents ELSE batch
\* mutant: the position reported is that of the last entry that is not a Document
LastBad(docs) ==
    IF \E i \in 1..Len(docs) : ~IsDocument(docs[i])
    THEN (CHOOSE i \in 1..Len(docs) :
              /\ ~IsDocument(docs[i])
              /\ \A j \in (i + 1)..Len(docs) : IsDocument(docs[j])) - 1
    ELSE -1

FirstBad(docs) ==
    IF \E i \in 1..Len(docs) : ~IsDocument(docs[i])
    THEN (CHOOSE i \in 1..Len(docs) :
              /\ ~IsDocument(docs[i])
              /\ \A j \in 1..(i - 1) : IsDocument(docs[j])) - 1
    ELSE -1

NoPersona ==
    [alive |-> FALSE, memory |-> FALSE, docs_none |-> FALSE, documents |-> <<>>,
     inst_fitted |-> FALSE, inst_db_set |-> FALSE, inst_db |-> <<>>,
     session_id |-> None, fresh |-> FALSE]

NoClass == [is_fitted |-> FALSE, db_set |-> FALSE, db |-> <<>>]

\* what a call on persona p reads: the instance, the class and the store
Snap(p) == <<persona[p], cls, store>>

\* pc: "idle" or "await" (suspended); op, who: the coroutine and its persona;
\* chunks: the split documents it computed before the await; arg: the
\* documents argument of aupdate; slot: where aupdate found self.db ("inst":
\* the instance attribute, "cls": the class attribute); stale: that attribute
\* has been rebound to another index object since; chain: the chain
\* acompletion awaits ("history": line 188, "plain": line 191); sid, hist: the
\* session id and the history messages acompletion read with the former; snap (ghost): Snap(who) when the
\* coroutine started.
NoTask ==
    [pc |-> "idle", op |-> "none", who |-> "none", chunks |-> <<>>, arg |-> <<>>,
     slot |-> "none", stale |-> FALSE, chain |-> "none", sid |-> None, hist |-> <<>>,
     snap |-> <<NoPersona, NoClass, <<>> >>]

\* the attribute `kind` of persona p (of the class when kind = "cls") is bound
\* to a new index object: the suspended aupdate calls that read the old one
\* from it now hold an object nobody else refers to
Rebound(tk, kind, p) ==
    [t \in Tasks |->
        IF /\ tk[t].pc = "await"
           /\ tk[t].op = "aupdate"
           /\ tk[t].slot = kind
           /\ (kind = "cls" \/ tk[t].who = p)
        THEN [tk[t] EXCEPT !.stale = TRUE]
        ELSE tk[t]]

\* uuid.uuid4()
uuid4 == Token(nextUuid + 1)

\* mutant: the two statements of clear_memory are swapped, so that the id
\* cleared is the one just generated
cleared_id_installed(p) == uuid4

\* clear_memory, line 194: the id handed to clear_session_history is
\* self._session_id as it is before line 195 (the class default None during
\* construction)
cleared_id(p) == persona[p].session_id

\* __init__ and _internal_init: the attributes are stored, the splitter is
\* built and clear_memory() runs with the class default _session_id = None.
NewPersona(p, mem, docsNone, docs) ==
    /\ ~persona[p].alive
    /\ store' = clear_session_history(store, cleared_id(p))
    /\ persona' = [persona EXCEPT ![p] =
           [NoPersona EXCEPT !.alive = TRUE, !.memory = mem, !.docs_none = docsNone,
                             !.documents = docs, !.session_id = uuid4, !.fresh = TRUE]]
    /\ nextUuid' = nextUuid + 1
    /\ UNCHANGED <<getLog, req>>

\* CloneLLM(model, documents, embedding, memory=mem)
Construct(p, mem, docs) ==
    /\ NewPersona(p, mem, FALSE, docs)
    /\ ret' = Ret("construct", p, None, "ok")
    /\ UNCHANGED <<cls, task>>

\* CloneLLM.from_persist_directory: cls.db and cls.__is_fitted are assigned on
\* the class, then cls(documents=None, ...) is constructed.
FromPersistDirectory(p, mem) ==
    /\ NewPersona(p, mem, TRUE, <<>>)
    /\ cls' = [is_fitted |-> TRUE, db_set |-> TRUE, db |-> PersistedIndex]
    /\ task' = Rebound(task, "cls", p)
    /\ ret' = Ret("from_persist_directory", p, None, "ok")

\* CloneLLM.clear_memory
ClearMemory(p) ==
    /\ persona[p].alive
    /\ store' = clear_session_history(store, cleared_id(p))
    /\ persona' = [persona EXCEPT ![p].session_id = uuid4, ![p].fresh = TRUE]
    /\ nextUuid' = nextUuid + 1
    /\ ret' = [Ret("clear_memory", p, persona[p].session_id, "ok") EXCEPT
                  !.dropped = IF persona[p].session_id \in DOMAIN store
                              THEN Len(store[persona[p].session_id].messages)
                              ELSE 0]
    /\ UNCHANGED <<getLog, cls, req, task>>

\* fit, lines 99-104: _check_documents(), split self.documents, build the
\* index from the chunks, set the instance's fitted flag. `built` is whether
\* the embedding/vector-store backend builds the index or raises.
FitBody(p, op, built) ==
    /\ persona[p].alive
    /\ IF persona[p].docs_none
       THEN \* enumerate(None or None)
            /\ ret' = Ret(op, p, None, "TypeError")
            /\ UNCHANGED persona
       ELSE IF FirstBad(persona[p].documents) >= 0
       THEN /\ ret' = [Ret(op, p, None, "ValueError") EXCEPT
                          !.pos = FirstBad(persona[p].documents)]
            /\ UNCHANGED persona
       ELSE IF ~built
       THEN /\ ret' = RetB(built, op, p, None, "BackendError")
            /\ UNCHANGED persona
       ELSE /\ persona' = [persona EXCEPT
                   ![p].inst_db_set = TRUE,
                   ![p].inst_db = split_documents(persona[p].documents),
                   ![p].inst_fitted = TRUE]
            /\ ret' = RetB(built, op, p, None, "ok")
    /\ UNCHANGED <<storeVars, cls, nextUuid, req>>

\* fit binds self.db to a new index object when it gets that far
Fit(p, built) ==
    /\ FitBody(p, "fit", built)
    /\ task' = IF ret'.out = "ok" THEN Rebound(task, "inst", p) ELSE task

\* afit, lines 107-108 and the call of line 109: _check_documents(), split
\* self.documents, then the coroutine is suspended in Chroma.afrom_documents
AFitStart(t, p) ==
    /\ task[t].pc = "idle"
    /\ persona[p].alive
    /\ IF persona[p].docs_none
       THEN /\ ret' = Ret("afit", p, None, "TypeError")
            /\ UNCHANGED task
       ELSE IF FirstBad(persona[p].documents) >= 0
       THEN /\ ret' = [Ret("afit", p, None, "ValueError") EXCEPT
                          !.pos = FirstBad(persona[p].documents)]
            /\ UNCHANGED task
       ELSE /\ ret' = Ret("afit", p, None, "pending")
            /\ task' = [task EXCEPT ![t] =
                   [NoTask EXCEPT !.pc = "await", !.op = "afit", !.who = p,
                                  !.chunks = split_documents(persona[p].documents),
                                  !.snap = Snap(p)]]
    /\ UNCHANGED <<storeVars, personaVars, req>>

\* afit, lines 109-111 after the await: self.db = ..., self.__is_fitted = True
AFitResume(t, built) ==
    /\ task[t].pc = "await"
    /\ task[t].op = "afit"
    /\ LET p == task[t].who
       IN  IF ~built
           THEN /\ ret' = RetB(built, "afit", p, None, "BackendError")
                /\ task' = [task EXCEPT ![t] = NoTask]
                /\ UNCHANGED persona
           ELSE /\ persona' = [persona EXCEPT
                       ![p].inst_db_set = TRUE,
                       ![p].inst_db = task[t].chunks,
                       ![p].inst_fitted = TRUE]
                /\ ret' = RetB(built, "afit", p, None, "ok")
                /\ task' = Rebound([task EXCEPT ![t] = NoTask], "inst", p)
    /\ UNCHANGED <<storeVars, cls, nextUuid, req>>

\* update, line 123: documents = self._splitter.split_documents(self.documents)
update_chunks(p, batch) == split_documents(persona[p].documents)

\* update, lines 117-125: _check_is_fitted(from_update=True),
\* _check_documents(batch), split of self.documents (which nothing has checked
\* when a batch is given), self.db.add_documents(chunks). self.db is the
\* instance's index when fit set one, else the index held by the class.
\* `added` is whether the vector-store backend adds the chunks or raises.
UpdateBody(p, op, batch, added) ==
    /\ persona[p].alive
    /\ IF ~check_is_fitted(p)
       THEN /\ ret' = [Ret(op, p, None, "AttributeError") EXCEPT !.arg = batch]
            /\ UNCHANGED <<persona, cls>>
       ELSE IF batch = <<>> /\ persona[p].docs_none
       THEN \* enumerate([] or None)
            /\ ret' = [Ret(op, p, None, "TypeError") EXCEPT !.arg = batch]
            /\ UNCHANGED <<persona, cls>>
       ELSE IF FirstBad(checked_batch(p, batch)) >= 0
       THEN /\ ret' = [Ret(op, p, None, "ValueError") EXCEPT
                          !.pos = FirstBad(checked_batch(p, batch)), !.arg = batch]
            /\ UNCHANGED <<persona, cls>>
       ELSE IF persona[p].docs_none
       THEN \* split_documents(None)
            /\ ret' = [Ret(op, p, None, "TypeError") EXCEPT !.arg = batch]
            /\ UNCHANGED <<persona, cls>>
       ELSE IF split_raises(persona[p].documents)
       THEN /\ ret' = [Ret(op, p, None, "AttributeError") EXCEPT !.arg = batch]
            /\ UNCHANGED <<persona, cls>>
       ELSE IF ~added
       THEN /\ ret' = [RetB(added, op, p, None, "BackendError") EXCEPT !.arg = batch]
            /\ UNCHANGED <<persona, cls>>
       ELSE /\ IF persona[p].inst_db_set
               THEN /\ persona' = [persona EXCEPT
                           ![p].inst_db = @ \o update_chunks(p, batch)]
                    /\ UNCHANGED cls
               ELSE /\ cls' = [cls EXCEPT !.db = @ \o update_chunks(p, batch)]
                    /\ UNCHANGED persona
            /\ ret' = [RetB(added, op, p, None, "ok") EXCEPT !.arg = batch]
    /\ UNCHANGED <<storeVars, nextUuid, req>>

Update(p, batch, added) == UpdateBody(p, "update", batch, added) /\ UNCHANGED task

\* aupdate, line 133: documents = self._splitter.split_documents(self.documents)
aupdate_chunks(p, batch) == split_documents(persona[p].documents)

\* aupdate, lines 131-133 and the call of line 134: the checks, the split and
\* the evaluation of self.db, then the coroutine is suspended in
\* aadd_documents of the index object it read
AUpdateStart(t, p, batch) ==
    /\ task[t].pc = "idle"
    /\ persona[p].alive
    /\ IF ~check_is_fitted(p)
       THEN /\ ret' = [Ret("aupdate", p, None, "AttributeError") EXCEPT !.arg = batch]
            /\ UNCHANGED task
       ELSE IF batch = <<>> /\ persona[p].docs_none
       THEN /\ ret' = [Ret("aupdate", p, None, "TypeError") EXCEPT !.arg = batch]
            /\ UNCHANGED task
       ELSE IF FirstBad(checked_batch(p, batch)) >= 0
       THEN /\ ret' = [Ret("aupdate", p, None, "ValueError") EXCEPT
                          !.pos = FirstBad(checked_batch(p, batch)), !.arg = batch]
            /\ UNCHANGED task
       ELSE IF persona[p].docs_none
       THEN /\ ret' = [Ret("aupdate", p, None, "TypeError") EXCEPT !.arg = batch]
            /\ UNCHANGED task
       ELSE IF split_raises(persona[p].documents)
       THEN /\ ret' = [Ret("aupdate", p, None, "AttributeError") EXCEPT !.arg = batch]
            /\ UNCHANGED task
       ELSE /\ ret' = [Ret("aupdate", p, None, "pending") EXCEPT !.arg = batch]
            /\ task' = [task EXCEPT ![t] =
                   [NoTask EXCEPT !.pc = "await", !.op = "aupdate", !.who = p,
                                  !.chunks = aupdate_chunks(p, batch),
                                  !.arg = batch,
                                  !.slot = IF persona[p].inst_db_set THEN "inst" ELSE "cls",
                                  !.snap = Snap(p)]]
    /\ UNCHANGED <<storeVars, personaVars, req>>

\* aupdate, lines 134-135 after the await: aadd_documents raised, or the
\* chunks have been added to the index object the coroutine read before it
\* was suspended, which is the persona's index unless the attribute was
\* rebound meanwhile. `added` is whether the backend adds the chunks or raises.
AUpdateResume(t, added) ==
    /\ task[t].pc = "await"
    /\ task[t].op = "aupdate"
    /\ LET p == task[t].who
       IN  IF ~added
           THEN /\ ret' = [RetB(added, "aupdate", p, None, "BackendError") EXCEPT
                              !.arg = task[t].arg]
                /\ UNCHANGED <<persona, cls>>
           ELSE /\ IF task[t].stale
                   THEN UNCHANGED <<persona, cls>>
                   ELSE IF task[t].slot = "inst"
                   THEN /\ persona' = [persona EXCEPT ![p].inst_db = @ \o task[t].chunks]
                        /\ UNCHANGED cls
                   ELSE /\ cls' = [cls EXCEPT !.db = @ \o task[t].chunks]
                        /\ UNCHANGED persona
                /\ ret' = [RetB(added, "aupdate", p, None, "ok") EXCEPT
                              !.arg = task[t].arg]
    /\ task' = [task EXCEPT ![t] = NoTask]
    /\ UNCHANGED <<storeVars, nextUuid, req>>

\* the user message and the assistant message of one completion, for a
\* history that holds n messages
ChatTurn(n) == << <<"human", n + 1>>, <<"ai", n + 2>> >>

\* mutant: the memory flag is ignored and every completion goes through the
\* history-aware chain
uses_history_always(p) == TRUE

\* completion, line 178: if self.memory
uses_history(p) == persona[p].memory

\* RunnableWithMessageHistory (input_messages_key="input",
\* output_messages_key="answer"): the messages stored after a completion
stored_turn(n) == ChatTurn(n)

\* completion, lines 176-182. `answers` is whether the retrieval and
\* completion backends answer or raise. With memory, RunnableWithMessageHistory
\* looks the session id up in the store (which raises on an absent id), hands
\* the history's messages to the chain and, when the chain returns, calls
\* add_messages with the new turn.
CompletionBody(p, op, answers) ==
    /\ persona[p].alive
    /\ LET sid == persona[p].session_id
       IN  IF ~check_is_fitted(p)
           THEN /\ ret' = Ret(op, p, None, "AttributeError")
                /\ UNCHANGED <<store, persona>>
           ELSE IF ~uses_history(p)
           THEN /\ ret' = RetB(answers, op, p, None, IF answers THEN "ok" ELSE "BackendError")
                /\ UNCHANGED <<store, persona>>
           ELSE IF get_outcome(store, sid) # "hist"
           THEN /\ ret' = Ret(op, p, sid, get_outcome(store, sid))
                /\ persona' = [persona EXCEPT ![p].fresh = FALSE]
                /\ UNCHANGED store
           ELSE IF ~answers
           THEN /\ ret' = [RetB(answers, op, p, sid, "BackendError") EXCEPT
                              !.hist = store[sid].messages]
                /\ persona' = [persona EXCEPT ![p].fresh = FALSE]
                /\ UNCHANGED store
           ELSE /\ ret' = [RetB(answers, op, p, sid, "ok") EXCEPT !.hist = store[sid].messages]
                /\ store' = [store EXCEPT ![sid] =
                                add_messages(@, stored_turn(Len(@.messages)))]
                /\ persona' = [persona EXCEPT ![p].fresh = FALSE]
    /\ UNCHANGED <<getLog, cls, nextUuid, req>>

Completion(p, answers) == CompletionBody(p, "completion", answers) /\ UNCHANGED task

\* mutant: acompletion never goes through the history-aware chain
auses_history_never(p) == FALSE

\* acompletion, line 186: if self.memory
auses_history(p) == persona[p].memory

\* acompletion, lines 185-187 and the call of line 188 or 191: the fitted
\* check, the choice of the chain and, with memory, the lookup of the session
\* id (which raises on an absent id) and the read of the history; then the
\* coroutine is suspended in the chain
ACompletionStart(t, p) ==
    /\ task[t].pc = "idle"
    /\ persona[p].alive
    /\ LET sid == persona[p].session_id
       IN  IF ~check_is_fitted(p)
           THEN /\ ret' = Ret("acompletion", p, None, "AttributeError")
                /\ UNCHANGED <<task, persona>>
           ELSE IF ~auses_history(p)
           THEN /\ ret' = Ret("acompletion", p, None, "pending")
                /\ task' = [task EXCEPT ![t] =
                       [NoTask EXCEPT !.pc = "await", !.op = "acompletion", !.who = p,
                                      !.chain = "plain", !.snap = Snap(p)]]
                /\ UNCHANGED persona
           ELSE IF get_outcome(store, sid) # "hist"
           THEN /\ ret' = Ret("acompletion", p, sid, get_outcome(store, sid))
                /\ persona' = [persona EXCEPT ![p].fresh = FALSE]
                /\ UNCHANGED task
           ELSE /\ ret' = [Ret("acompletion", p, sid, "pending") EXCEPT
                              !.hist = store[sid].messages]
                /\ task' = [task EXCEPT ![t] =
                       [NoTask EXCEPT !.pc = "await", !.op = "acompletion", !.who = p,
                                      !.chain = "history",
                                      !.sid = sid, !.hist = store[sid].messages,
                                      !.snap = Snap(p)]]
                /\ persona' = [persona EXCEPT ![p].fresh = FALSE]
    /\ UNCHANGED <<storeVars, cls, nextUuid, req>>

\* acompletion, lines 188-191 after the await: the chain has answered or
\* raised; the history-aware chain stores the turn in the history that was
\* looked up, the plain chain of line 191 never touches the store
ACompletionResume(t, answers) ==
    /\ task[t].pc = "await"
    /\ task[t].op = "acompletion"
    /\ LET p == task[t].who
           sid == task[t].sid
       IN  IF ~answers
           THEN /\ ret' = [RetB(answers, "acompletion", p, sid, "BackendError") EXCEPT
                              !.hist = task[t].hist]
                /\ UNCHANGED store
           ELSE /\ ret' = [RetB(answers, "acompletion", p, sid, "ok") EXCEPT
                              !.hist = task[t].hist]
                /\ store' = IF task[t].chain = "history"
                            THEN [store EXCEPT ![sid] =
                                     add_messages(@, stored_turn(Len(@.messages)))]
                            ELSE store
    /\ task' = [task EXCEPT ![t] = NoTask]
    /\ UNCHANGED <<getLog, personaVars, req>>

\* ------------------------------------------------------------- specifications

Init ==
    /\ store = << >>
    /\ getLog = [s \in AllIds |-> <<>>]
    /\ ret = Ret("init", "caller", None, "ok")
    /\ cls = NoClass
    /\ persona = [p \in Personas |-> NoPersona]
    /\ nextUuid = 0
    /\ req = [r \in Requests |-> NoRequest]
    /\ task = [t \in Tasks |-> NoTask]

\* memory.py used on its own, with session ids chosen by the caller
NextStore ==
    \/ \E s \in ExtIds, m \in Memories : InstallHistory(s, m)
    \/ \E s \in ExtIds : Get(s)
    \/ \E s \in ExtIds \cup {None} : ClearSession(s)

SpecStore == Init /\ [][NextStore]_vars

\* the uuid tokens handed out so far
Issued == {Token(i) : i \in 1..nextUuid}

\* personas with and without conversation memory, one valid document each; a
\* caller tries to install histories under the session ids the personas hold.
\* At most MaxUuid tokens are drawn from uuid.uuid4().
Next ==
    \/ \E p \in Personas, mem \in BOOLEAN :
          nextUuid < MaxUuid /\ Construct(p, mem, <<"d1">>)
    \/ \E p \in Personas, built \in BOOLEAN : Fit(p, built)
    \/ \E p \in Personas, answers \in BOOLEAN : Completion(p, answers)
    \/ \E t \in Tasks, p \in Personas : ACompletionStart(t, p)
    \/ \E t \in Tasks, answers \in BOOLEAN : ACompletionResume(t, answers)
    \/ \E p \in Personas : nextUuid < MaxUuid /\ ClearMemory(p)
    \/ \E s \in Issued, m \in {2, 4} : InstallHistory(s, m)
    \/ \E s \in {None, "a"} : ClearSession(s)

Spec == Init /\ [][Next]_vars

\* corpora given to the constructor, and batches given to update
Corpora == {<<"d1">>, <<"d1", "x", "x">>}
Batches == {<<>>, <<"d2">>, <<"d2", "x", "x">>}

\* fit / update lifecycle of two personas, one coroutine at a time; an index
\* grows to MaxIndex chunks at most
NextFit ==
    \/ \E p \in Personas, docs \in Corpora : Construct(p, FALSE, docs)
    \/ \E p \in Personas : FromPersistDirectory(p, TRUE)
    \/ \E p \in Personas, built \in BOOLEAN : Fit(p, built)
    \/ \E p \in Personas : AFitStart("t1", p)
    \/ \E built \in BOOLEAN : AFitResume("t1", built)
    \/ \E p \in Personas, batch \in Batches, added \in BOOLEAN :
          /\ Update(p, batch, added)
          /\ Len(db_of(p))' <= MaxIndex
    \/ \E p \in Personas, batch \in Batches : AUpdateStart("t1", p, batch)
    \/ \E added \in BOOLEAN :
          /\ AUpdateResume("t1", added)
          /\ \A p \in Personas : Len(db_of(p))' <= MaxIndex
    \/ \E p \in Personas, answers \in BOOLEAN : Completion(p, answers)
    \/ \E p \in Personas : ACompletionStart("t1", p)
    \/ \E answers \in BOOLEAN : ACompletionResume("t1", answers)

SpecFit == Init /\ [][NextFit]_vars

\* one persona driven through every synchronous and asynchronous operation,
\* two coroutines in flight, one clear_memory; an index grows to MaxIndex
\* chunks at most
NextAsync ==
    \/ \E mem \in BOOLEAN : Construct("p1", mem, <<"d1">>)
    \/ FromPersistDirectory("p1", TRUE)
    \/ \E built \in BOOLEAN : Fit("p1", built)
    \/ \E t \in Tasks : AFitStart(t, "p1")
    \/ \E t \in Tasks, built \in BOOLEAN : AFitResume(t, built)
    \/ \E batch \in Batches, added \in BOOLEAN :
          /\ Update("p1", batch, added)
          /\ Len(db_of("p1"))' <= MaxIndex
    \/ \E t \in Tasks, batch \in Batches : AUpdateStart(t, "p1", batch)
    \/ \E t \in Tasks, added \in BOOLEAN :
          /\ AUpdateResume(t, added)
          /\ Len(db_of("p1"))' <= MaxIndex
    \/ \E answers \in BOOLEAN : Completion("p1", answers)
    \/ \E t \in Tasks : ACompletionStart(t, "p1")
    \/ \E t \in Tasks, answers \in BOOLEAN : ACompletionResume(t, answers)
    \/ nextUuid < 2 /\ ClearMemory("p1")

SpecAsync == Init /\ [][NextAsync]_vars

\* two requests run the constructor, the lookup and the clear statement by
\* statement
NextSteps ==
    \/ \E r \in Requests, s \in ExtIds : Begin(r, s)
    \/ \E r \in Requests : GetCheck(r)
    \/ \E r \in Requests : GetCreate(r)
    \/ \E r \in Requests, m \in Memories : NewCall(r, m)
    \/ \E r \in Requests : ClearStep(r)

SpecSteps == Init /\ [][NextSteps]_vars

\* one request works on a history an importer bound to id "a": it looks the
\* id up, appends batches statement by statement and clears, one call after
\* the other; it appends MaxSent messages at most between two clears
NextHistory ==
    \/ \E m \in Memories : BindHistory("a", m)
    \/ Begin("r1", "a")
    \/ GetCheck("r1")
    \/ GetCreate("r1")
    \/ \E batch \in MsgBatches :
          /\ Len(req["r1"].sent) + Len(batch) <= MaxSent
          /\ AddCall("r1", batch)
    \/ AppendStep("r1")
    \/ TruncateStep("r1")
    \/ StoreStep("r1")
    \/ ClearStep("r1")

SpecHistory == Init /\ [][NextHistory]_vars

\* two requests run concurrently on the one history an importer bound to id
\* "a", which keeps two messages
NextShared ==
    \/ BindHistory("a", 2)
    \/ \E r \in Requests : Begin(r, "a")
    \/ \E r \in Requests : GetCheck(r)
    \/ \E r \in Requests : GetCreate(r)
    \/ \E r \in Requests, batch \in {<<"m1">>, <<"m2", "m3">>} :
          /\ Len(req[r].sent) + Len(batch) <= MaxSent
          /\ AddCall(r, batch)
    \/ \E r \in Requests : AppendStep(r)
    \/ \E r \in Requests : TruncateStep(r)
    \/ \E r \in Requests : StoreStep(r)
    \/ \E r \in Requests : ClearStep(r)

SpecShared == Init /\ [][NextShared]_vars

\* two requests run concurrently on different session ids: r1 on "a", whose
\* history keeps two messages, r2 on "b", whose history keeps all
NextApart ==
    \/ BindHistory("a", 2)
    \/ BindHistory("b", 0)
    \/ Begin("r1", "a")
    \/ Begin("r2", "b")
    \/ \E r \in Requests : GetCheck(r)
    \/ \E r \in Requests : GetCreate(r)
    \/ \E r \in Requests, batch \in {<<"m1">>, <<"m2", "m3">>} :
          /\ Len(req[r].sent) + Len(batch) <= MaxSent
          /\ AddCall(r, batch)
    \/ \E r \in Requests : AppendStep(r)
    \/ \E r \in Requests : TruncateStep(r)
    \/ \E r \in Requests : StoreStep(r)
    \/ \E r \in Requests : ClearStep(r)

SpecApart == Init /\ [][NextApart]_vars

\* personas whose session ids an importer binds histories to, so that the
\* completions of a memory-enabled persona find and fill a history
NextBound ==
    \/ \E p \in Personas, mem \in BOOLEAN :
          nextUuid < MaxUuid /\ Construct(p, mem, <<"d1">>)
    \/ \E p \in Personas, built \in BOOLEAN : Fit(p, built)
    \/ \E p \in Personas, answers \in BOOLEAN : Completion(p, answers)
    \/ \E p \in Personas : nextUuid < MaxUuid /\ ClearMemory(p)
    \/ \E s \in Issued : BindHistory(s, 2)
    \/ \E s \in {None, "a"} : ClearSession(s)

SpecBound == Init /\ [][NextBound]_vars

\* ------------------------------------------------------------- claims

\* the last m elements of seq, for m > 0
LastOf(seq, m) ==
    LET k == IF m <= Len(seq) THEN m ELSE Len(seq)
    IN  [i \in 1..k |-> seq[Len(seq) - k + i]]

\* C1: for a positive retention bound m, after each add_messages call on a
\* history has returned, the history holds min(total appended, m) messages,
\* which are the last m messages appended so far in the order they were
\* appended.
C1_BoundedTail ==
    \A r \in Requests :
        (/\ req[r].pc = "idle"
         /\ req[r].sid \in DOMAIN store
         /\ store[req[r].sid].memory > 0)
        => LET h == store[req[r].sid]
           IN  /\ Len(h.messages) = Min(Len(req[r].sent), h.memory)
               /\ h.messages = LastOf(req[r].sent, h.memory)

\* a request has appended MaxSent messages in two or more calls to a history
\* that keeps two
C1_Witness ==
    /\ req["r1"].pc = "idle"
    /\ req["r1"].call = "add"
    /\ "a" \in DOMAIN store
    /\ store["a"].memory = 2
    /\ Len(req["r1"].sent) = MaxSent
    /\ store["a"].messages = <<req["r1"].sent[MaxSent - 1], req["r1"].sent[MaxSent]>>

\* C2: a lookup never fails: after get(sid) the caller holds the history bound
\* to sid in the store (created empty when sid was absent).
C2_GetNeverFails ==
    ret.op = "get" => (ret.out = "hist" /\ ret.sid \in DOMAIN store)

\* C3: two lookups of one id with no clear in between both return the history
\* bound to that id, so what is appended through one is seen through the other.
C3_SameHistory ==
    \A s \in SessionIds :
        \A i \in 1..(Len(getLog[s]) - 1) :
            (getLog[s][i] # "clear" /\ getLog[s][i + 1] # "clear")
            => (/\ getLog[s][i] = "hist"
                /\ getLog[s][i + 1] = "hist"
                /\ s \in DOMAIN store)

\* C4: a clear of an id that has no entry in the store (by a caller, by
\* clear_memory, or with the unset id during construction) does not raise and
\* leaves every history of the store as it was.
C4_ClearUnknownFrame ==
    [][(/\ ret'.op \in {"clear", "clear_memory", "construct"}
        /\ ret'.sid \notin DOMAIN store)
       => (/\ ret'.out = "ok"
           /\ DOMAIN store' = DOMAIN store
           /\ \A t \in DOMAIN store : store'[t].messages = store[t].messages)]_vars

\* a persona has just been constructed (clear of the unset id) while the
\* history of another session holds messages
C4_Witness ==
    /\ ret.op = "construct"
    /\ ret.out = "ok"
    /\ ret.sid = None
    /\ \E t \in DOMAIN store : store[t].messages # <<>>

\* C5: the first memory-enabled completion after clear_memory reads an empty
\* history.
C5_ResetThenEmpty ==
    [][\A p \in Personas :
          (persona[p].fresh /\ ~persona'[p].fresh)
          => (/\ ret'.out # "TypeError"
              /\ ret'.sid \in DOMAIN store
              /\ ret'.hist = <<>>)]_vars

\* C6: on a fitted persona with memory enabled, a completion whose backends
\* answer succeeds and leaves the user message followed by the assistant
\* message at the end of the history of the persona's session id, and changes
\* no other session.
C6_TurnAppended ==
    [][\A p \in Personas :
          (/\ ret'.who = p
           /\ ret'.op \in {"completion", "acompletion"}
           /\ ret'.out # "pending"
           /\ ret'.backend
           /\ persona[p].memory
           /\ check_is_fitted(p))
          => LET sid == persona[p].session_id
             IN  /\ ret'.out = "ok"
                 /\ sid \in DOMAIN store'
                 /\ Len(store'[sid].messages) >= 2
                 /\ store'[sid].messages[Len(store'[sid].messages) - 1][1] = "human"
                 /\ store'[sid].messages[Len(store'[sid].messages)][1] = "ai"
                 /\ \A t \in DOMAIN store \ {sid} : store'[t] = store[t]]_vars

\* C7: constructing, fitting and querying a persona whose memory is disabled
\* leaves the store as it was and hands no session id to it.
C7_NoMemoryNoStore ==
    [][\A p \in Personas :
          (/\ ret'.who = p
           /\ ret'.op \in {"construct", "fit", "afit", "completion", "acompletion"}
           /\ ~persona'[p].memory)
          => (/\ store' = store
              /\ ret'.sid = None
              /\ ret'.hist = <<>>)]_vars

\* a fitted memory-disabled persona has answered an acompletion while the
\* other persona has memory enabled
C7_Witness ==
    /\ ret.op = "acompletion"
    /\ ret.out = "ok"
    /\ ret.who \in Personas
    /\ ~persona[ret.who].memory
    /\ persona[ret.who].inst_fitted
    /\ \E q \in Personas \ {ret.who} : persona[q].alive /\ persona[q].memory

\* C8: on a persona on which no fit has succeeded, completion, acompletion,
\* update and aupdate raise the precondition error, and the persona has no
\* retrieval index.
C8_UnfittedRaises ==
    \A p \in Personas :
        (/\ ret.who = p
         /\ ret.op \in {"completion", "acompletion", "update", "aupdate"}
         /\ ~persona[p].inst_fitted
         /\ ~persona[p].docs_none)
        => (ret.out = "AttributeError" /\ db_is_none(p))

\* the index a persona reads after the step
DbAfter(p) == IF persona'[p].inst_db_set THEN persona'[p].inst_db ELSE cls'.db

\* C9: a successful update(documents) extends the index by exactly the chunks
\* of the documents it was given.
C9_UpdateAddsArgument ==
    [][\A p \in Personas :
          (/\ ret'.who = p
           /\ ret'.op \in {"update", "aupdate"}
           /\ ret'.out = "ok")
          => DbAfter(p) = db_of(p) \o split_documents(ret'.arg)]_vars

HasBad(docs) == \E i \in 1..Len(docs) : ~IsDocument(docs[i])

\* the call names position pos of docs, and nothing of the personas changed
RejectedAt(docs, r) ==
    /\ r.out = "ValueError"
    /\ r.pos \in 0..(Len(docs) - 1)
    /\ ~IsDocument(docs[r.pos + 1])
    /\ \A j \in 1..r.pos : IsDocument(docs[j])
    /\ persona' = persona
    /\ cls' = cls

\* C10 as stated: fit on a corpus, or update on a batch, holding an entry that
\* is not a Document raises the validation error that names the entry's
\* position, and leaves index and fitted flag as they were.
C10_BadBatchRejected ==
    [][\A p \in Personas :
          /\ (/\ ret'.who = p
              /\ ret'.op \in {"fit", "afit"}
              /\ ~persona[p].docs_none
              /\ HasBad(persona[p].documents))
             => RejectedAt(persona[p].documents, ret')
          /\ (/\ ret'.who = p
              /\ ret'.op \in {"update", "aupdate"}
              /\ HasBad(ret'.arg))
             => RejectedAt(ret'.arg, ret')]_vars

\* C10 amended: the same for fit, and for update on a persona that passes the
\* fitted check; update on a persona that fails it raises the precondition
\* error instead. The position named is that of the first such entry, and
\* nothing changes in either case.
C10_BadBatchRejectedWhenFitted ==
    [][\A p \in Personas :
          /\ (/\ ret'.who = p
              /\ ret'.op \in {"fit", "afit"}
              /\ ~persona[p].docs_none
              /\ HasBad(persona[p].documents))
             => RejectedAt(persona[p].documents, ret')
          /\ (/\ ret'.who = p
              /\ ret'.op \in {"update", "aupdate"}
              /\ HasBad(ret'.arg))
             => IF check_is_fitted(p)
                THEN RejectedAt(ret'.arg, ret')
                ELSE /\ ret'.out = "AttributeError"
                     /\ persona' = persona
                     /\ cls' = cls]_vars

\* update on a fitted persona has just rejected a batch whose first entry is
\* a Document and whose second is not
C10_Witness ==
    /\ ret.op \in {"update", "aupdate"}
    /\ ret.out = "ValueError"
    /\ ret.pos = 1
    /\ ret.arg = <<"d2", "x", "x">>
    /\ ret.who \in Personas
    /\ persona[ret.who].inst_fitted
    /\ persona[ret.who].inst_db # <<>>

\* C11: for a zero or negative retention bound, after each add_messages call
\* on a history has returned, the history holds every message appended so
\* far, in the order they were appended.
C11_UnboundedKeepsAll ==
    \A r \in Requests :
        (/\ req[r].pc = "idle"
         /\ req[r].sid \in DOMAIN store
         /\ store[req[r].sid].memory <= 0)
        => store[req[r].sid].messages = req[r].sent

\* a request has appended MaxSent messages in two or more calls to a history
\* with a negative retention bound
C11_Witness ==
    /\ req["r1"].pc = "idle"
    /\ req["r1"].call = "add"
    /\ "a" \in DOMAIN store
    /\ store["a"].memory < 0
    /\ Len(store["a"].messages) = MaxSent

\* what the synchronous counterpart of coroutine op does on persona p, with
\* the backend answer and the documents argument recorded in r
SyncBody(op, p, r) ==
    IF op = "afit" THEN FitBody(p, "afit", r.backend)
    ELSE IF op = "aupdate" THEN UpdateBody(p, "aupdate", r.arg, r.backend)
    ELSE CompletionBody(p, "acompletion", r.backend)

C12_Step ==
    /\ \A t \in Tasks :
          (/\ task[t].pc = "await"
           /\ task'[t].pc = "idle"
           /\ ~task[t].stale
           /\ task[t].snap = Snap(task[t].who))
          => SyncBody(task[t].op, task[t].who, ret')
    /\ \A p \in Personas :
          (/\ ret'.who = p
           /\ ret'.op \in {"afit", "aupdate", "acompletion"}
           /\ ret'.out # "pending"
           /\ \A t \in Tasks : task'[t].pc = task[t].pc)
          => SyncBody(ret'.op, p, ret')

\* C12: a coroutine that ends in the state it started from (the persona, the
\* class attributes and the store as they were, its index object still the
\* persona's), or that raises before its await, returns or raises what its
\* synchronous counterpart does from that state with the same backend answer,
\* and leaves the same persona, class and store.
C12_AsyncMatchesSync == [][C12_Step]_vars

\* aupdate has returned after its await and extended the index the persona
\* got from fit, while another coroutine is suspended
C12_Witness ==
    /\ ret.op = "aupdate"
    /\ ret.out = "ok"
    /\ persona["p1"].inst_fitted
    /\ Len(persona["p1"].inst_db) = 2
    /\ \E t \in Tasks : task[t].pc = "await" /\ task[t].op = "acompletion"

\* C13: in every state, those between the statements of an add_messages call
\* included, a history with a positive retention bound holds at most that
\* many messages.
C13_BoundAlways ==
    \A s \in DOMAIN store :
        store[s].memory > 0 => Len(store[s].messages) <= store[s].memory

\* C14: two requests that looked up the same id, absent when they started,
\* both hold the one history now bound to it.
C14_SameObject ==
    \A r1 \in Requests : \A r2 \in Requests \ {r1} :
        (/\ req[r1].sid = req[r2].sid
         /\ req[r1].pc = "idle"
         /\ req[r2].pc = "idle"
         /\ req[r1].call = "get"
         /\ req[r2].call = "get")
        => (/\ req[r1].got = "hist"
            /\ req[r2].got = "hist"
            /\ req[r1].sid \in DOMAIN store)

\* C15: whatever a request on another session id does in between, the
\* history of a request's session id holds, each time one of its calls has
\* returned, the messages its own calls produce when run alone.
C15_Independent ==
    \A r \in Requests :
        (/\ req[r].pc = "idle"
         /\ \A q \in Requests \ {r} : req[q].sid # req[r].sid)
        => IF req[r].sid \in DOMAIN store
           THEN store[req[r].sid].messages = req[r].alone
           ELSE req[r].alone = <<>>

\* a request has appended to its history and returned while the request on
\* the other session id, which has appended too, is inside add_messages
C15_Witness ==
    \E r \in Requests : \E q \in Requests \ {r} :
        /\ req[r].sid # req[q].sid
        /\ req[r].sid \in DOMAIN store
        /\ req[q].sid \in DOMAIN store
        /\ req[r].pc = "idle"
        /\ req[r].call = "add"
        /\ Len(req[r].alone) >= 2
        /\ req[q].pc = "append"
        /\ req[q].sent # <<>>
        /\ req[q].batch # <<>>

\* every live persona holds a generated token, and no two hold the same one
C16_HoldsToken ==
    \A p \in Personas :
        persona[p].alive =>
            /\ persona[p].session_id # None
            /\ persona[p].session_id \in Issued
            /\ \A q \in Personas \ {p} :
                   persona[q].alive => persona[q].session_id # persona[p].session_id

\* a step that gives persona p a session id: construction or clear_memory
C16_NewIdStep ==
    \A p \in Personas :
        persona'[p].session_id # persona[p].session_id
        => LET old == persona[p].session_id
               new == persona'[p].session_id
           IN  /\ new # None
               /\ new \notin Issued
               /\ \A q \in Personas : new # persona[q].session_id
               /\ DOMAIN store' = DOMAIN store
               /\ old \in DOMAIN store =>
                      /\ store'[old].messages = <<>>
                      /\ store'[old].memory = store[old].memory
               /\ \A t \in DOMAIN store \ {old} : store'[t] = store[t]

\* C16: from the end of construction on a persona's session id is a non-null
\* token; each clear_memory clears the id that was current and installs an id
\* that no persona has held before.
C16_FreshSessionId == [][C16_NewIdStep]_vars /\ []C16_HoldsToken

\* clear_memory has just emptied the history of the id a persona held, which
\* held messages, and installed a new id, the other persona being alive
C16_Witness ==
    /\ ret.op = "clear_memory"
    /\ ret.dropped > 0
    /\ ret.sid \in DOMAIN store
    /\ store[ret.sid].messages = <<>>
    /\ persona[ret.who].session_id \in Issued
    /\ persona[ret.who].session_id # ret.sid
    /\ \A p \in Personas : persona[p].alive

\* C17: a persona instance built by the constructor on which neither fit nor
\* afit has succeeded is unfitted and has no retrieval index, whatever was done
\* to create or fit other instances.
C17_FittedPerInstance ==
    \A p \in Personas :
        (persona[p].alive /\ ~persona[p].docs_none /\ ~persona[p].inst_fitted)
        => (~is_fitted(p) /\ db_is_none(p))

\* the lookup that follows a request's clear of a history that held messages
C18_GetStep ==
    \A r \in Requests :
        (/\ req[r].call = "clear"
         /\ req[r].cleared
         /\ req[r].sent = <<>>
         /\ req'[r].call = "get"
         /\ req'[r].pc = "idle")
        => (/\ req'[r].got = "hist"
            /\ store'[req[r].sid].messages = <<>>
            /\ store'[req[r].sid].memory = req[r].bound)

\* what a request appended since such a clear is kept as in a new history
C18_Retained ==
    \A r \in Requests :
        (req[r].pc = "idle" /\ req[r].cleared)
        => LET h == store[req[r].sid]
           IN  /\ h.memory = req[r].bound
               /\ h.messages = IF h.memory > 0 THEN LastOf(req[r].sent, h.memory)
                                ELSE req[r].sent

\* C18: after the clear of an id whose history holds messages, the next
\* lookup of the id yields a history with no messages and the retention
\* bound it had, and the messages appended afterwards are kept under that
\* bound as in a new history.
C18_FreshAfterClear == [][C18_GetStep]_vars /\ []C18_Retained

\* after such a clear the request has looked the id up and appended more
\* messages than the history keeps
C18_Witness ==
    /\ req["r1"].cleared
    /\ req["r1"].pc = "idle"
    /\ req["r1"].call = "add"
    /\ req["r1"].bound = 2
    /\ Len(req["r1"].sent) >= 3
    /\ Len(store["a"].messages) = 2

====
